---- MODULE Spec2Model ----
(***************************************************************************)
(* A model of account.py: the TimeZone value object, the class-wide        *)
(* transaction counter and interest rate, the confirmation-code codec and  *)
(* the Account operations.                                                 *)
(*                                                                         *)
(* Python values are records with a type tag t.  Numbers are exact         *)
(* fractions n/d (d = 1 for an int); the float NaN is 0/0.  Float rounding *)
(* is not modelled: float arithmetic is taken as exact.  Strings are       *)
(* sequences of one-character strings, so that split, strip and the        *)
(* decimal conversions are computed character by character.                *)
(***************************************************************************)
EXTENDS Integers, Sequences, FiniteSets, TLC

VARIABLES
    transaction_counter,  \* Account.transaction_counter: the value next() returns
    interest_rate,        \* Account._interest_rate
    accounts,             \* the Account objects of the run
    log,                  \* the draws from the counter, in order
    calls,                \* the number of calls made
    call,                 \* the arguments of the call under test
    ret                   \* the last call and its outcome

vars == <<transaction_counter, interest_rate, accounts, log, calls, call, ret>>

(***************************************************************************)
(* Bounds of the model.                                                    *)
(***************************************************************************)
MaxCalls == 3
MaxHours == 16
MaxMinutes == 61

(***************************************************************************)
(* Numbers.                                                                *)
(***************************************************************************)
Abs(k) == IF k < 0 THEN -k ELSE k

RECURSIVE GCD(_, _)
GCD(a, b) == IF b = 0 THEN a ELSE GCD(b, a % b)

PyInt(k) == [t |-> "int", n |-> k, d |-> 1]

Norm(tag, num, den) ==
    LET g == GCD(Abs(num), den)
    IN  [t |-> tag, n |-> num \div g, d |-> den \div g]

PyFloat(num, den) == Norm("float", num, den)

NaN == [t |-> "float", n |-> 0, d |-> 0]

PyStrObj == [t |-> "str", n |-> 0, d |-> 1]

PyNoneNum == [t |-> "NoneType", n |-> 0, d |-> 1]

IsNaN(v) == v.d = 0

\* isinstance(v, numbers.Real)
IsReal(v) == v.t \in {"int", "float"}

\* isinstance(v, numbers.Integral)
IsIntegral(v) == v.t = "int"

LCM(a, b) == (a \div GCD(a, b)) * b

\* the numerators of a and b over their common denominator
Num(a, b) == a.n * (LCM(a.d, b.d) \div a.d)

\* a < b on Python numbers: every comparison with NaN is False
PyLt(a, b) == IF IsNaN(a) \/ IsNaN(b) THEN FALSE ELSE Num(a, b) < Num(b, a)

\* a >= b in the place of a > b
PyGtOrEqual(a, b) ==
    IF IsNaN(a) \/ IsNaN(b) THEN FALSE ELSE Num(a, b) >= Num(b, a)

\* a > b
PyGt(a, b) == PyLt(b, a)

\* a >= b
PyGe(a, b) == IF IsNaN(a) \/ IsNaN(b) THEN FALSE ELSE Num(a, b) >= Num(b, a)

\* the type of the result of +, - and * on two numbers
ResultTag(a, b) == IF a.t = "int" /\ b.t = "int" THEN "int" ELSE "float"

\* a + b
PyAdd(a, b) ==
    IF IsNaN(a) \/ IsNaN(b) THEN NaN
    ELSE Norm(ResultTag(a, b), Num(a, b) + Num(b, a), LCM(a.d, b.d))

\* a - b
PySub(a, b) ==
    IF IsNaN(a) \/ IsNaN(b) THEN NaN
    ELSE Norm(ResultTag(a, b), Num(a, b) - Num(b, a), LCM(a.d, b.d))

\* a * b
PyMul(a, b) ==
    IF IsNaN(a) \/ IsNaN(b) THEN NaN
    ELSE LET g1 == GCD(Abs(a.n), b.d)
             g2 == GCD(Abs(b.n), a.d)
         IN  Norm(ResultTag(a, b), (a.n \div g1) * (b.n \div g2),
                  (a.d \div g2) * (b.d \div g1))

\* a / b for b # 0: true division, always a float
PyTrueDiv(a, b) ==
    IF IsNaN(a) \/ IsNaN(b) THEN NaN
    ELSE LET r == PyMul(a, [t |-> "float", n |-> IF b.n < 0 THEN -b.d ELSE b.d,
                            d |-> Abs(b.n)])
         IN  [r EXCEPT !.t = "float"]

(***************************************************************************)
(* Strings.                                                                *)
(***************************************************************************)
Str(s) == [t |-> "str", s |-> s]

NoneStr == [t |-> "NoneType", s |-> <<>>]

Digits == <<"0", "1", "2", "3", "4", "5", "6", "7", "8", "9">>

IsDigit(c) == \E i \in 1..10 : Digits[i] = c

DigitVal(c) == (CHOOSE i \in 1..10 : Digits[i] = c) - 1

Whitespace == {" ", "\t", "\n"}

RECURSIVE LStrip(_)
LStrip(s) == IF s # <<>> /\ Head(s) \in Whitespace THEN LStrip(Tail(s)) ELSE s

RECURSIVE RStrip(_)
RStrip(s) ==
    IF s # <<>> /\ s[Len(s)] \in Whitespace
    THEN RStrip(SubSeq(s, 1, Len(s) - 1))
    ELSE s

\* str.strip()
Strip(s) == RStrip(LStrip(s))

RECURSIVE NatToStr(_)
NatToStr(k) ==
    IF k < 10 THEN <<Digits[k + 1]>>
    ELSE NatToStr(k \div 10) \o <<Digits[(k % 10) + 1]>>

\* str(k) / f"{k}" of an int
IntToStr(k) == IF k < 0 THEN <<"-">> \o NatToStr(-k) ELSE NatToStr(k)

RECURSIVE StrToNat(_)
StrToNat(s) ==
    IF s = <<>> THEN 0
    ELSE 10 * StrToNat(SubSeq(s, 1, Len(s) - 1)) + DigitVal(s[Len(s)])

AllDigits(s) == \A i \in 1..Len(s) : IsDigit(s[i])

\* the decimal text k is padded with zeros on the left to width w (%m, %d, ...)
RECURSIVE ZeroPad(_, _)
ZeroPad(s, w) == IF Len(s) >= w THEN s ELSE ZeroPad(<<"0">> \o s, w)

\* str.split(sep) for a one-character separator
RECURSIVE Split(_, _)
Split(s, sep) ==
    IF \A i \in 1..Len(s) : s[i] # sep THEN <<s>>
    ELSE LET k == CHOOSE i \in 1..Len(s) :
                      s[i] = sep /\ \A j \in 1..(i - 1) : s[j] # sep
         IN  <<SubSeq(s, 1, k - 1)>> \o Split(SubSeq(s, k + 1, Len(s)), sep)

(***************************************************************************)
(* Results of a call: a returned value or a raised exception.              *)
(***************************************************************************)
NoException == "none"

(***************************************************************************)
(* datetime.timedelta: normalised to days and seconds (0 <= seconds <      *)
(* 86400), compared lexicographically.                                     *)
(***************************************************************************)
\* the minutes counted without their sign
timedeltaUnsignedMinutes(hours, minutes) ==
    LET total == hours * 3600 + Abs(minutes) * 60
    IN  [days |-> total \div 86400, seconds |-> total % 86400]

timedelta(hours, minutes) ==
    LET total == hours * 3600 + minutes * 60
    IN  [days |-> total \div 86400, seconds |-> total % 86400]

TimedeltaLt(a, b) ==
    a.days < b.days \/ (a.days = b.days /\ a.seconds < b.seconds)

TimedeltaSeconds(td) == td.days * 86400 + td.seconds

(***************************************************************************)
(* class TimeZone                                                          *)
(***************************************************************************)
NoTimeZone ==
    [t |-> "NoneType", name |-> <<>>, offset_hours |-> 0,
     offset_minutes |-> 0, offset |-> timedelta(0, 0)]

NotATimeZone ==
    [t |-> "str", name |-> <<>>, offset_hours |-> 0,
     offset_minutes |-> 0, offset |-> timedelta(0, 0)]

\* TimeZone.__init__(name, offset_hours, offset_minutes)
TimeZoneInit(name, offset_hours, offset_minutes) ==
    IF name.t = "NoneType" \/ Len(Strip(name.s)) = 0
    THEN [raised |-> "ValueError", value |-> NoTimeZone]
    ELSE IF ~IsIntegral(offset_hours)
    THEN [raised |-> "ValueError", value |-> NoTimeZone]
    ELSE IF ~IsIntegral(offset_minutes)
    THEN [raised |-> "ValueError", value |-> NoTimeZone]
    ELSE IF offset_minutes.n < -59 \/ offset_minutes.n > 59
    THEN [raised |-> "ValueError", value |-> NoTimeZone]
    ELSE LET offset == timedelta(offset_hours.n, offset_minutes.n)
         IN  IF TimedeltaLt(offset, timedelta(-12, 0))
                \/ TimedeltaLt(timedelta(14, 0), offset)
             THEN [raised |-> "ValueError", value |-> NoTimeZone]
             ELSE [raised |-> NoException,
                   value |-> [t |-> "TimeZone", name |-> Strip(name.s),
                              offset_hours |-> offset_hours.n,
                              offset_minutes |-> offset_minutes.n,
                              offset |-> offset]]

UTC == TimeZoneInit(Str(<<"U", "T", "C">>), PyInt(0), PyInt(0)).value

(***************************************************************************)
(* datetime: a record of the six fields the '%Y%m%d%H%M%S' format uses.    *)
(***************************************************************************)
DateTime(Y, m, d, H, M, S) ==
    [year |-> Y, month |-> m, day |-> d, hour |-> H, minute |-> M, second |-> S]

NoDateTime == DateTime(0, 0, 0, 0, 0, 0)

IsLeap(Y) == (Y % 4 = 0 /\ Y % 100 # 0) \/ Y % 400 = 0

DaysInMonth(Y, m) ==
    IF m = 2 THEN (IF IsLeap(Y) THEN 29 ELSE 28)
    ELSE IF m \in {4, 6, 9, 11} THEN 30 ELSE 31

\* a format with separators in the date: '%Y-%m-%d%H%M%S'
StrftimeDashed(dt) ==
    IntToStr(dt.year) \o <<"-">> \o ZeroPad(IntToStr(dt.month), 2)
    \o <<"-">> \o ZeroPad(IntToStr(dt.day), 2) \o ZeroPad(IntToStr(dt.hour), 2)
    \o ZeroPad(IntToStr(dt.minute), 2) \o ZeroPad(IntToStr(dt.second), 2)

\* datetime.strftime('%Y%m%d%H%M%S'); the C library's %Y does not pad a year
\* below 1000
Strftime(dt) ==
    IntToStr(dt.year) \o ZeroPad(IntToStr(dt.month), 2)
    \o ZeroPad(IntToStr(dt.day), 2) \o ZeroPad(IntToStr(dt.hour), 2)
    \o ZeroPad(IntToStr(dt.minute), 2) \o ZeroPad(IntToStr(dt.second), 2)

\* datetime.isoformat()
IsoFormat(dt) ==
    ZeroPad(IntToStr(dt.year), 4) \o <<"-">> \o ZeroPad(IntToStr(dt.month), 2)
    \o <<"-">> \o ZeroPad(IntToStr(dt.day), 2) \o <<"T">>
    \o ZeroPad(IntToStr(dt.hour), 2) \o <<":">>
    \o ZeroPad(IntToStr(dt.minute), 2) \o <<":">>
    \o ZeroPad(IntToStr(dt.second), 2)

\* datetime.strptime(raw, '%Y%m%d%H%M%S') on a text that either holds a
\* character that is no digit or has the full width of 14 digits (a text of
\* 9 to 13 digits, which the one-or-two digit fields of strptime may still
\* match, is never passed in this model)
Strptime(raw) ==
    IF ~AllDigits(raw) \/ Len(raw) # 14
    THEN [raised |-> "ValueError", value |-> NoDateTime]
    ELSE LET Y == StrToNat(SubSeq(raw, 1, 4))
             m == StrToNat(SubSeq(raw, 5, 6))
             d == StrToNat(SubSeq(raw, 7, 8))
             H == StrToNat(SubSeq(raw, 9, 10))
             M == StrToNat(SubSeq(raw, 11, 12))
             S == StrToNat(SubSeq(raw, 13, 14))
         IN  IF Y < 1 \/ m < 1 \/ m > 12 \/ d < 1 \/ d > DaysInMonth(Y, m)
                \/ H > 23 \/ M > 59 \/ S > 59
             THEN [raised |-> "ValueError", value |-> NoDateTime]
             ELSE [raised |-> NoException, value |-> DateTime(Y, m, d, H, M, S)]

NextDay(dt) ==
    IF dt.day < DaysInMonth(dt.year, dt.month)
    THEN [dt EXCEPT !.day = dt.day + 1]
    ELSE IF dt.month < 12
    THEN [dt EXCEPT !.day = 1, !.month = dt.month + 1]
    ELSE [dt EXCEPT !.day = 1, !.month = 1, !.year = dt.year + 1]

PrevDay(dt) ==
    IF dt.day > 1
    THEN [dt EXCEPT !.day = dt.day - 1]
    ELSE IF dt.month > 1
    THEN [dt EXCEPT !.day = DaysInMonth(dt.year, dt.month - 1),
                    !.month = dt.month - 1]
    ELSE [dt EXCEPT !.day = 31, !.month = 12, !.year = dt.year - 1]

RECURSIVE ShiftDays(_, _)
ShiftDays(dt, k) ==
    IF k = 0 THEN dt
    ELSE IF k > 0 THEN ShiftDays(NextDay(dt), k - 1)
    ELSE ShiftDays(PrevDay(dt), k + 1)

\* datetime + timedelta; a year outside 1..9999 is an OverflowError
DateTimeAdd(dt, td) ==
    LET s   == dt.hour * 3600 + dt.minute * 60 + dt.second + td.seconds
        day == ShiftDays(dt, td.days + (s \div 86400))
        r   == s % 86400
        res == [day EXCEPT !.hour = r \div 3600,
                           !.minute = (r % 3600) \div 60,
                           !.second = r % 60]
    IN  IF res.year < 1 \/ res.year > 9999
        THEN [raised |-> "OverflowError", value |-> NoDateTime]
        ELSE [raised |-> NoException, value |-> res]

(***************************************************************************)
(* class Transaction_Code(Enum): the trailing commas make the values of    *)
(* DEPOSIT, WITHDRAW and INTEREST one-element tuples; REJECTED is a str.   *)
(***************************************************************************)
Transaction_Code ==
    [DEPOSIT  |-> [isTuple |-> TRUE,  items |-> << <<"D">> >>, s |-> <<>>],
     WITHDRAW |-> [isTuple |-> TRUE,  items |-> << <<"W">> >>, s |-> <<>>],
     INTEREST |-> [isTuple |-> TRUE,  items |-> << <<"I">> >>, s |-> <<>>],
     REJECTED |-> [isTuple |-> FALSE, items |-> <<>>, s |-> <<"X">>]]

\* value[0]: the first item of a tuple, the first character of a str
Index0(value) == IF value.isTuple THEN value.items[1] ELSE <<value.s[1]>>

(***************************************************************************)
(* Confirmation codes.                                                     *)
(***************************************************************************)
NoConfirmation ==
    [account_number |-> <<>>, transaction_code |-> <<>>,
     transaction_id |-> <<>>, time_utc |-> <<>>, time |-> <<>>]

\* the code carries the counter's value after the draw, as a counter that
\* increments before it returns would give
generation_confirmation_code_preincrement(self, transaction_code, utcnow, counter) ==
    IF transaction_code \notin DOMAIN Transaction_Code
    THEN [raised |-> "KeyError", value |-> <<>>, drew |-> FALSE]
    ELSE [raised |-> NoException,
          value |-> Index0(Transaction_Code[transaction_code]) \o <<"-">>
                    \o IntToStr(self.account_number) \o <<"-">>
                    \o Strftime(utcnow) \o <<"-">> \o IntToStr(counter + 1),
          drew |-> TRUE]

\* Account.generation_confirmation_code(self, transaction_code), with the
\* value utcnow of the clock and the value counter the shared counter holds;
\* drew tells whether next(Account.transaction_counter) was reached
generation_confirmation_code(self, transaction_code, utcnow, counter) ==
    LET dt_str == Strftime(utcnow)
    IN  IF transaction_code \notin DOMAIN Transaction_Code
        THEN [raised |-> "KeyError", value |-> <<>>, drew |-> FALSE]
        ELSE LET t_code == Index0(Transaction_Code[transaction_code])
             IN  [raised |-> NoException,
                  value |-> t_code \o <<"-">> \o IntToStr(self.account_number)
                            \o <<"-">> \o dt_str \o <<"-">> \o IntToStr(counter),
                  drew |-> TRUE]

\* Account.parse_confirmation_code(confirmation_code, preferred_time_zone)
parse_confirmation_code(confirmation_code, preferred_time_zone) ==
    LET parts == Split(confirmation_code, "-")
    IN  IF Len(parts) # 4
        THEN [raised |-> "ValueError", value |-> NoConfirmation]
        ELSE LET transaction_code == parts[1]
                 account_number   == parts[2]
                 raw_dt_utc       == parts[3]
                 transaction_id   == parts[4]
                 parsed           == Strptime(raw_dt_utc)
                 tz == IF preferred_time_zone.t = "NoneType"
                       THEN UTC ELSE preferred_time_zone
             IN  IF parsed.raised # NoException
                 THEN [raised |-> "ValueError", value |-> NoConfirmation]
                 ELSE IF tz.t # "TimeZone"
                 THEN [raised |-> "ValueError", value |-> NoConfirmation]
                 ELSE LET dt_utc == parsed.value
                          dt_preferred == DateTimeAdd(dt_utc, tz.offset)
                      IN  IF dt_preferred.raised # NoException
                          THEN [raised |-> dt_preferred.raised,
                                value |-> NoConfirmation]
                          ELSE [raised |-> NoException,
                                value |->
                                  [account_number |-> account_number,
                                   transaction_code |-> transaction_code,
                                   transaction_id |-> transaction_id,
                                   time_utc |-> IsoFormat(dt_utc),
                                   time |-> Strftime(dt_preferred.value)
                                            \o <<" ", "(">> \o tz.name
                                            \o <<")">>]]

(***************************************************************************)
(* class Account                                                           *)
(***************************************************************************)
InitialInterestRate == 5

CounterStart == 100

\* min_value of the balance, deposit and withdraw validations: 0.01
MinAmount == PyFloat(1, 100)

\* initial_balance=0
DefaultInitialBalance == PyInt(0)

Hundred == PyInt(100)

NoAccount ==
    [account_number |-> 0, first_name |-> <<>>, last_name |-> <<>>,
     balance |-> PyInt(0), timezone |-> NoTimeZone]

\* value <= min_value in the place of value < min_value
validate_real_number_exclusive(value, min_value) ==
    IF ~IsReal(value)
    THEN [raised |-> "ValueError", value |-> value]
    ELSE IF min_value.t # "NoneType" /\ ~IsNaN(value) /\ ~IsNaN(min_value)
            /\ Num(value, min_value) <= Num(min_value, value)
    THEN [raised |-> "ValueError", value |-> value]
    ELSE [raised |-> NoException, value |-> value]

\* Account.validate_real_number(value, field_title, min_value); min_value is
\* PyNoneNum for None
validate_real_number(value, min_value) ==
    IF ~IsReal(value)
    THEN [raised |-> "ValueError", value |-> value]
    ELSE IF min_value.t # "NoneType" /\ PyLt(value, min_value)
    THEN [raised |-> "ValueError", value |-> value]
    ELSE [raised |-> NoException, value |-> value]

\* only None is rejected
validate_and_set_name_none_only(value) ==
    IF value.t = "NoneType" THEN "ValueError" ELSE NoException

\* Account.validate_and_set_name(attr_name, value, field_title): the
\* exception it raises, if any; the value is stored as given
validate_and_set_name(value) ==
    IF value.t = "NoneType" \/ Len(Strip(value.s)) = 0
    THEN "ValueError" ELSE NoException

\* the timezone setter
timezone_setter(value) ==
    IF value.t # "TimeZone" THEN "ValueError" ELSE NoException

\* Account.__init__(account_number, first_name, last_name, initial_balance,
\* timezone)
AccountInit(account_number, first_name, last_name, initial_balance, timezone) ==
    IF ~IsIntegral(account_number)
    THEN [raised |-> "ValueError", value |-> NoAccount]
    ELSE IF account_number.n < 0
    THEN [raised |-> "ValueError", value |-> NoAccount]
    ELSE IF validate_and_set_name(first_name) # NoException
    THEN [raised |-> "ValueError", value |-> NoAccount]
    ELSE IF validate_and_set_name(last_name) # NoException
    THEN [raised |-> "ValueError", value |-> NoAccount]
    ELSE IF validate_real_number(initial_balance, MinAmount).raised # NoException
    THEN [raised |-> "ValueError", value |-> NoAccount]
    ELSE LET tz == IF timezone.t = "NoneType" THEN UTC ELSE timezone
         IN  IF timezone_setter(tz) # NoException
             THEN [raised |-> "ValueError", value |-> NoAccount]
             ELSE [raised |-> NoException,
                   value |-> [account_number |-> account_number.n,
                              first_name |-> first_name.s,
                              last_name |-> last_name.s,
                              balance |-> initial_balance,
                              timezone |-> tz]]

\* the rate the class starts with, whatever was set since
get_interest_rate_initial == PyInt(InitialInterestRate)

\* Account.get_interest_rate()
get_interest_rate == interest_rate

\* the value pay_interest adds: self.balance * Account.get_interest_rate() / 100
Interest(balance, rate) == PyTrueDiv(PyMul(balance, rate), Hundred)

\* Account.set_interest_rate(value): the exception raised, if any, and the
\* class attribute after the call
set_interest_rate(value, rate) ==
    IF ~IsReal(value)
    THEN [raised |-> "ValueError", rate |-> rate]
    ELSE IF PyLt(value, PyInt(0))
    THEN [raised |-> "ValueError", rate |-> rate]
    ELSE [raised |-> NoException, rate |-> value]

(***************************************************************************)
(* Inputs of the calls.                                                    *)
(***************************************************************************)
IR == TimeZoneInit(Str(<<"I", "R">>), PyInt(3), PyInt(30)).value

Amounts ==
    {PyStrObj, NaN, PyFloat(1, 200), PyFloat(1, 100), PyInt(20), PyInt(200)}

Rates == {PyStrObj, PyInt(-1), PyInt(0), PyInt(10)}

KindNames == {"DEPOSIT", "WITHDRAW", "INTEREST", "REJECTED", "BOGUS"}

\* datetime.utcnow() at the k-th call: the wall clock of the run advances by
\* one second per call, across the end of a year
WallClock(k) ==
    DateTimeAdd(DateTime(1999, 12, 31, 23, 59, 58), [days |-> 0, seconds |-> k]).value

(***************************************************************************)
(* The state machine of a run: two accounts, the class attributes they     *)
(* share, the log of the draws from the counter, and the last call.  The   *)
(* direct calls of generation_confirmation_code and the calls of           *)
(* parse_confirmation_code are the steps of SpecCodec below.               *)
(***************************************************************************)
NoCall == [op |-> "none"]

NoRet ==
    [op |-> "none", self |-> 0, arg |-> PyNoneNum, kind |-> "",
     raised |-> NoException, code |-> <<>>, id |-> 0,
     parsed |-> NoConfirmation, tz |-> NoTimeZone, account |-> NoAccount]

Init ==
    /\ transaction_counter = CounterStart
    /\ interest_rate = PyInt(InitialInterestRate)
    /\ accounts =
         << AccountInit(PyInt(400), Str(<<"A", "l">>), Str(<<"B", "o">>),
                        PyFloat(100, 1), IR).value,
            AccountInit(PyInt(7), Str(<<"C", "y">>), Str(<<"D", "i">>),
                        PyInt(20), NoTimeZone).value >>
    /\ log = <<>>
    /\ calls = 0
    /\ call = NoCall
    /\ ret = NoRet

\* the draw reads the counter and leaves it where it was
DrawnWithoutAdvance(i, kind, g) ==
    /\ transaction_counter' = transaction_counter
    /\ log' = Append(log, [by |-> "generation_confirmation_code", self |-> i,
                           kind |-> kind, drawn |-> transaction_counter,
                           code |-> g.value])

\* next(Account.transaction_counter) inside generation_confirmation_code:
\* the counter advances and the draw is recorded in the log
Drawn(i, kind, g) ==
    /\ transaction_counter' = transaction_counter + 1
    /\ log' = Append(log, [by |-> "generation_confirmation_code", self |-> i,
                           kind |-> kind, drawn |-> transaction_counter,
                           code |-> g.value])

\* a.deposit(value)
Deposit(i, value, utcnow) ==
    LET v == validate_real_number(value, MinAmount)
    IN  /\ calls < MaxCalls
        /\ calls' = calls + 1
        /\ UNCHANGED <<interest_rate, call>>
        /\ IF v.raised # NoException
           THEN /\ ret' = [NoRet EXCEPT !.op = "deposit", !.self = i,
                                        !.arg = value, !.raised = v.raised]
                /\ UNCHANGED <<transaction_counter, accounts, log>>
           ELSE LET g == generation_confirmation_code(accounts[i], "DEPOSIT",
                                                      utcnow, transaction_counter)
                IN  /\ Drawn(i, "DEPOSIT", g)
                    /\ accounts' = [accounts EXCEPT
                                      ![i].balance = PyAdd(@, v.value)]
                    /\ ret' = [NoRet EXCEPT !.op = "deposit", !.self = i,
                                            !.arg = value, !.kind = "DEPOSIT",
                                            !.code = g.value]

\* a.withdraw(value)
Withdraw(i, value, utcnow) ==
    LET v == validate_real_number(value, MinAmount)
    IN  /\ calls < MaxCalls
        /\ calls' = calls + 1
        /\ UNCHANGED <<interest_rate, call>>
        /\ IF v.raised # NoException
           THEN /\ ret' = [NoRet EXCEPT !.op = "withdraw", !.self = i,
                                        !.arg = value, !.raised = v.raised]
                /\ UNCHANGED <<transaction_counter, accounts, log>>
           ELSE IF PyGt(v.value, accounts[i].balance)
           THEN LET g == generation_confirmation_code(accounts[i], "REJECTED",
                                                      utcnow, transaction_counter)
                IN  /\ Drawn(i, "REJECTED", g)
                    /\ ret' = [NoRet EXCEPT !.op = "withdraw", !.self = i,
                                            !.arg = value, !.kind = "REJECTED",
                                            !.code = g.value]
                    /\ UNCHANGED accounts
           ELSE LET g == generation_confirmation_code(accounts[i], "WITHDRAW",
                                                      utcnow, transaction_counter)
                IN  /\ Drawn(i, "WITHDRAW", g)
                    /\ accounts' = [accounts EXCEPT
                                      ![i].balance = PySub(@, v.value)]
                    /\ ret' = [NoRet EXCEPT !.op = "withdraw", !.self = i,
                                            !.arg = value, !.kind = "WITHDRAW",
                                            !.code = g.value]

\* a.pay_interest()
PayInterest(i, utcnow) ==
    LET interest == Interest(accounts[i].balance, get_interest_rate)
        g == generation_confirmation_code(accounts[i], "INTEREST", utcnow,
                                          transaction_counter)
    IN  /\ calls < MaxCalls
        /\ calls' = calls + 1
        /\ Drawn(i, "INTEREST", g)
        /\ accounts' = [accounts EXCEPT ![i].balance = PyAdd(@, interest)]
        /\ ret' = [NoRet EXCEPT !.op = "pay_interest", !.self = i,
                                !.kind = "INTEREST", !.code = g.value]
        /\ UNCHANGED <<interest_rate, call>>

\* Account.set_interest_rate(value)
SetInterestRate(value) ==
    LET r == set_interest_rate(value, interest_rate)
    IN  /\ calls < MaxCalls
        /\ calls' = calls + 1
        /\ interest_rate' = r.rate
        /\ ret' = [NoRet EXCEPT !.op = "set_interest_rate", !.arg = value,
                                !.raised = r.raised]
        /\ UNCHANGED <<transaction_counter, accounts, log, call>>

\* a.make_transaction_codes()
MakeTransactionCodes(i) ==
    /\ calls < MaxCalls
    /\ calls' = calls + 1
    /\ transaction_counter' = transaction_counter + 1
    /\ log' = Append(log, [by |-> "make_transaction_codes", self |-> i,
                           kind |-> "", drawn |-> transaction_counter,
                           code |-> <<>>])
    /\ ret' = [NoRet EXCEPT !.op = "make_transaction_codes", !.self = i,
                            !.id = transaction_counter]
    /\ UNCHANGED <<interest_rate, accounts, call>>

\* a.generation_confirmation_code(transaction_code), called directly
GenerationConfirmationCode(i, transaction_code, utcnow) ==
    LET g == generation_confirmation_code(accounts[i], transaction_code, utcnow,
                                          transaction_counter)
    IN  /\ calls < MaxCalls
        /\ calls' = calls + 1
        /\ UNCHANGED <<interest_rate, accounts, call>>
        /\ IF g.drew
           THEN /\ Drawn(i, transaction_code, g)
                /\ ret' = [NoRet EXCEPT !.op = "generation_confirmation_code",
                                        !.self = i, !.kind = transaction_code,
                                        !.raised = g.raised, !.code = g.value]
           ELSE /\ ret' = [NoRet EXCEPT !.op = "generation_confirmation_code",
                                        !.self = i, !.kind = transaction_code,
                                        !.raised = g.raised]
                /\ UNCHANGED <<transaction_counter, log>>

\* Account.parse_confirmation_code(confirmation_code, preferred_time_zone)
ParseConfirmationCode(confirmation_code, preferred_time_zone) ==
    LET p == parse_confirmation_code(confirmation_code, preferred_time_zone)
    IN  /\ calls < MaxCalls
        /\ calls' = calls + 1
        /\ ret' = [NoRet EXCEPT !.op = "parse_confirmation_code",
                                !.code = confirmation_code,
                                !.tz = preferred_time_zone,
                                !.raised = p.raised, !.parsed = p.value]
        /\ UNCHANGED <<transaction_counter, interest_rate, accounts, log, call>>

Next ==
    \/ \E i \in 1..Len(accounts), value \in Amounts :
          Deposit(i, value, WallClock(calls))
    \/ \E i \in 1..Len(accounts), value \in Amounts :
          Withdraw(i, value, WallClock(calls))
    \/ \E i \in 1..Len(accounts) : PayInterest(i, WallClock(calls))
    \/ \E value \in Rates : SetInterestRate(value)
    \/ \E i \in 1..Len(accounts) : MakeTransactionCodes(i)

Spec == Init /\ [][Next]_vars

(***************************************************************************)
(* The codec on its own: one account, a counter value, a kind name, a      *)
(* clock value and a display time zone are drawn; the code is generated    *)
(* and then parsed.  A call with a code of its own parses that code.       *)
(***************************************************************************)
Clock ==
    {DateTime(1999, 12, 31, 23, 59, 59), DateTime(2026, 11, 1, 7, 5, 31),
     DateTime(2024, 2, 29, 12, 0, 0), DateTime(2025, 1, 1, 0, 0, 0)}

TimeZoneArgs ==
    {NoTimeZone, NotATimeZone, IR,
     TimeZoneInit(Str(<<"W">>), PyInt(-12), PyInt(0)).value,
     TimeZoneInit(Str(<<"E">>), PyInt(13), PyInt(59)).value}

CounterValues == {CounterStart, CounterStart + 899, CounterStart + 900}

CodecAccounts ==
    {AccountInit(PyInt(k), Str(<<"A", "l">>), Str(<<"B", "o">>),
                 PyFloat(100, 1), NoTimeZone).value : k \in {0, 7, 400}}

MalformedCodes ==
    {<<"D", "-", "7">>,
     <<"D", "-", "7", "-", "2", "0", "2", "6", "x", "-", "1", "0", "0">>,
     <<"D", "-", "-", "7", "-", "2", "0", "2", "6", "-", "1", "0", "0">>,
     <<"D", "-", "7", "-", "2", "0", "2", "6", "0", "2", "3", "0", "0", "0",
       "0", "0", "0", "0", "-", "1", "0", "0">>}

InitCodec ==
    /\ transaction_counter \in CounterValues
    /\ interest_rate = PyInt(InitialInterestRate)
    /\ accounts \in {<<a>> : a \in CodecAccounts}
    /\ log = <<>>
    /\ calls = 0
    /\ call \in [op : {"codec"}, kind : KindNames, utcnow : Clock,
                 tz : TimeZoneArgs, code : {<<>>} \cup MalformedCodes]
    /\ ret = NoRet

CodecGenerate ==
    /\ calls = 0
    /\ call.code = <<>>
    /\ GenerationConfirmationCode(1, call.kind, call.utcnow)

CodecParse ==
    \/ /\ calls = 1
       /\ ret.op = "generation_confirmation_code"
       /\ ret.raised = NoException
       /\ ParseConfirmationCode(ret.code, call.tz)
    \/ /\ calls = 0
       /\ call.code # <<>>
       /\ ParseConfirmationCode(call.code, call.tz)

NextCodec == CodecGenerate \/ CodecParse

SpecCodec == InitCodec /\ [][NextCodec]_vars

(***************************************************************************)
(* TimeZone(name, offset_hours, offset_minutes) on drawn arguments.        *)
(***************************************************************************)
NameArgs ==
    {NoneStr, Str(<<>>), Str(<<" ">>), Str(<<"I", "R">>), Str(<<" ", "I", "R", "\n">>)}

HourArgs == {PyInt(h) : h \in (-MaxHours)..MaxHours} \cup {PyFloat(3, 1), PyStrObj}

MinuteArgs ==
    {PyInt(m) : m \in (-MaxMinutes)..MaxMinutes} \cup {PyFloat(30, 1), PyStrObj}

InitTZ ==
    /\ transaction_counter = CounterStart
    /\ interest_rate = PyInt(InitialInterestRate)
    /\ accounts = <<>>
    /\ log = <<>>
    /\ calls = 0
    /\ call \in [op : {"TimeZone"}, name : NameArgs, offset_hours : HourArgs,
                 offset_minutes : MinuteArgs]
    /\ ret = NoRet

TimeZoneNew ==
    LET r == TimeZoneInit(call.name, call.offset_hours, call.offset_minutes)
    IN  /\ calls = 0
        /\ calls' = 1
        /\ ret' = [NoRet EXCEPT !.op = "TimeZone", !.raised = r.raised,
                                !.tz = r.value]
        /\ UNCHANGED <<transaction_counter, interest_rate, accounts, log, call>>

NextTZ == TimeZoneNew

SpecTZ == InitTZ /\ [][NextTZ]_vars

(***************************************************************************)
(* Account(account_number, first_name, last_name, initial_balance,         *)
(* timezone) on drawn arguments.                                           *)
(***************************************************************************)
AccountNumberArgs == {PyInt(-1), PyInt(0), PyInt(400), PyFloat(400, 1), PyStrObj}

InitialBalanceArgs ==
    {DefaultInitialBalance, PyFloat(-100, 1), PyFloat(1, 200), MinAmount,
     PyFloat(100, 1), PyInt(100), NaN, PyStrObj}

AccountTimeZoneArgs == {NoTimeZone, NotATimeZone, IR}

InitAccount ==
    /\ transaction_counter = CounterStart
    /\ interest_rate = PyInt(InitialInterestRate)
    /\ accounts = <<>>
    /\ log = <<>>
    /\ calls = 0
    /\ call \in [op : {"Account"}, account_number : AccountNumberArgs,
                 first_name : NameArgs, last_name : NameArgs,
                 initial_balance : InitialBalanceArgs,
                 timezone : AccountTimeZoneArgs]
    /\ ret = NoRet

AccountNew ==
    LET r == AccountInit(call.account_number, call.first_name, call.last_name,
                         call.initial_balance, call.timezone)
    IN  /\ calls = 0
        /\ calls' = 1
        /\ accounts' = IF r.raised = NoException THEN <<r.value>> ELSE <<>>
        /\ ret' = [NoRet EXCEPT !.op = "Account", !.raised = r.raised,
                                !.account = r.value]
        /\ UNCHANGED <<transaction_counter, interest_rate, log, call>>

NextAccount == AccountNew

SpecAccount == InitAccount /\ [][NextAccount]_vars

(***************************************************************************)
(* Properties.                                                             *)
(***************************************************************************)
\* the fields of a confirmation code
Fields(code) == Split(code, "-")

\* the sequence id a confirmation code carries: its last field, read as a
\* decimal number
CodeId(code) == StrToNat(Fields(code)[Len(Fields(code))])

StartsWith(s, prefix) ==
    Len(s) >= Len(prefix) /\ SubSeq(s, 1, Len(prefix)) = prefix

\* the positions of the log that hold a confirmation code
CodePositions == {k \in 1..Len(log) : log[k].code # <<>>}

\* C1: over any interleaving of deposit, withdraw (accepted or rejected) and
\* pay_interest calls on any accounts, the sequence ids carried by the
\* confirmation codes are strictly increasing in issue order, so no two codes
\* carry the same id.
C1_IdsStrictlyIncreasing ==
    \A j \in CodePositions : \A k \in CodePositions :
        j < k => CodeId(log[j].code) < CodeId(log[k].code)

\* a rejected withdrawal on one account, then interest on the other account,
\* then a deposit: three codes of three kinds over both accounts
C1_Witness ==
    /\ Len(log) = 3
    /\ log[1].kind = "REJECTED" /\ log[2].kind = "INTEREST"
    /\ log[3].kind = "DEPOSIT"
    /\ log[1].self # log[2].self
    /\ ret.op = "deposit"
    /\ CodeId(log[1].code) < CodeId(log[3].code)

\* C2: withdraw(amount) with amount >= 0.01: if amount > balance the balance
\* is unchanged and the returned code starts with 'X-' (a normal return); if
\* amount <= balance the balance decreases by exactly amount and the returned
\* code starts with 'W-'.
C2_Withdraw ==
    [][(ret'.op = "withdraw" /\ IsReal(ret'.arg) /\ PyGe(ret'.arg, MinAmount))
        => LET i == ret'.self
               amount == ret'.arg
               balance == accounts[i].balance
           IN  /\ PyLt(balance, amount)
                    => /\ accounts' = accounts
                       /\ ret'.raised = NoException
                       /\ StartsWith(ret'.code, <<"X", "-">>)
               /\ PyGe(balance, amount)
                    => /\ accounts' = [accounts EXCEPT
                                         ![i].balance = PySub(balance, amount)]
                       /\ ret'.raised = NoException
                       /\ StartsWith(ret'.code, <<"W", "-">>)]_vars

\* a rejected withdrawal, then a withdrawal of the whole balance
C2_Witness ==
    /\ ret.op = "withdraw" /\ ret.kind = "WITHDRAW"
    /\ ret.arg = PyInt(20)
    /\ accounts[ret.self].balance = PyInt(0)
    /\ \E k \in 1..Len(log) :
          log[k].kind = "REJECTED" /\ StartsWith(log[k].code, <<"X", "-">>)

\* the tag the specification gives each kind
TagOf(kind) ==
    IF kind = "DEPOSIT" THEN <<"D">>
    ELSE IF kind = "WITHDRAW" THEN <<"W">>
    ELSE IF kind = "INTEREST" THEN <<"I">>
    ELSE <<"X">>

ValidKinds == {"DEPOSIT", "WITHDRAW", "INTEREST", "REJECTED"}

\* C3: for every account and every kind of DEPOSIT, WITHDRAW, INTEREST,
\* REJECTED, the generated code splits into exactly 4 '-'-separated fields,
\* parsing it succeeds, and the parsed transaction_id is the decimal text of
\* the id drawn, the parsed transaction_code is the one-character tag of the
\* kind, and the parsed account_number is the decimal text of the account's
\* number.
C3_RoundTrip ==
    /\ \A k \in CodePositions :
          LET e == log[k]
              p == parse_confirmation_code(e.code, NoTimeZone)
          IN  /\ e.kind \in ValidKinds
              /\ Len(Fields(e.code)) = 4
              /\ p.raised = NoException
              /\ p.value.transaction_id = IntToStr(e.drawn)
              /\ p.value.transaction_code = TagOf(e.kind)
              /\ p.value.account_number =
                   IntToStr(accounts[e.self].account_number)
    /\ (ret.op = "parse_confirmation_code" /\ calls = 2 /\ call.tz.t # "str")
          => /\ ret.raised = NoException
             /\ ret.parsed.transaction_id = IntToStr(log[1].drawn)
             /\ ret.parsed.transaction_code = TagOf(log[1].kind)
             /\ ret.parsed.account_number = IntToStr(accounts[1].account_number)

\* a REJECTED code of account 400 with a four-digit id, generated and parsed
C3_Witness ==
    /\ ret.op = "parse_confirmation_code" /\ calls = 2
    /\ ret.raised = NoException
    /\ call.kind = "REJECTED" /\ call.tz = IR
    /\ accounts[1].account_number = 400
    /\ ret.parsed.transaction_id = <<"1", "0", "0", "0">>
    /\ ret.parsed.transaction_code = <<"X">>

\* C4: every call that returns a confirmation code (deposit, accepted or
\* rejected withdraw, pay_interest) advances the shared counter by exactly
\* one and the code carries the value drawn by that call; so two codes issued
\* one after the other, with no other draw between them, carry ids that
\* differ by exactly 1, whichever accounts issued them.
C4_OneSlotPerCode ==
    /\ [][(ret'.op \in {"deposit", "withdraw", "pay_interest"}
           /\ ret'.raised = NoException)
          => /\ transaction_counter' = transaction_counter + 1
             /\ ret'.code # <<>>
             /\ CodeId(ret'.code) = transaction_counter]_vars
    /\ [](\A k \in 1..(Len(log) - 1) :
             (log[k].code # <<>> /\ log[k + 1].code # <<>>)
                => CodeId(log[k + 1].code) = CodeId(log[k].code) + 1)

\* a rejected withdrawal directly followed by a code of the other account
C4_Witness ==
    /\ Len(log) >= 2
    /\ log[1].kind = "REJECTED" /\ log[1].by = "generation_confirmation_code"
    /\ log[2].code # <<>> /\ log[2].self # log[1].self
    /\ ret.op = "withdraw" /\ ret.kind = "WITHDRAW"
    /\ transaction_counter = CounterStart + 2

\* C5: deposit(amount) with amount < 0.01 fails with ValueError and leaves
\* the balance unchanged; with amount >= 0.01 it increases the balance by
\* exactly amount and returns a code starting with 'D-'.
C5_Deposit ==
    [][(ret'.op = "deposit" /\ IsReal(ret'.arg))
        => LET i == ret'.self
               amount == ret'.arg
               balance == accounts[i].balance
           IN  /\ PyLt(amount, MinAmount)
                    => /\ ret'.raised = "ValueError"
                       /\ accounts' = accounts
               /\ PyGe(amount, MinAmount)
                    => /\ ret'.raised = NoException
                       /\ accounts' = [accounts EXCEPT
                                         ![i].balance = PyAdd(balance, amount)]
                       /\ StartsWith(ret'.code, <<"D", "-">>)]_vars

\* a deposit of exactly 0.01, then a failed deposit of 0.005
C5_Witness ==
    /\ ret.op = "deposit" /\ ret.raised = "ValueError"
    /\ ret.arg = PyFloat(1, 200)
    /\ \E k \in 1..Len(log) : log[k].kind = "DEPOSIT" /\ log[k].self = 2
    /\ accounts[2].balance = PyFloat(2001, 100)

\* C6: Account construction fails with ValueError when the account number is
\* negative, when the first or the last name is empty, or when the initial
\* balance is below 0.01 (so with the default initial balance 0 it always
\* fails); when it succeeds, the account's number, names, timezone and
\* balance are the arguments given (the timezone UTC+0 when none is given).
C6_AccountConstruction ==
    (ret.op = "Account") =>
        /\ (IsIntegral(call.account_number) /\ call.account_number.n < 0)
              => ret.raised = "ValueError"
        /\ (call.first_name.t = "str" /\ call.first_name.s = <<>>)
              => ret.raised = "ValueError"
        /\ (call.last_name.t = "str" /\ call.last_name.s = <<>>)
              => ret.raised = "ValueError"
        /\ (IsReal(call.initial_balance)
            /\ PyLt(call.initial_balance, PyFloat(1, 100)))
              => ret.raised = "ValueError"
        /\ call.initial_balance = DefaultInitialBalance
              => ret.raised = "ValueError"
        /\ ret.raised # NoException => accounts = <<>>
        /\ ret.raised = NoException
              => /\ accounts = <<ret.account>>
                 /\ ret.account.account_number = call.account_number.n
                 /\ ret.account.first_name = call.first_name.s
                 /\ ret.account.last_name = call.last_name.s
                 /\ ret.account.balance = call.initial_balance
                 /\ ret.account.timezone =
                      (IF call.timezone.t = "NoneType"
                       THEN [t |-> "TimeZone", name |-> <<"U", "T", "C">>,
                             offset_hours |-> 0, offset_minutes |-> 0,
                             offset |-> [days |-> 0, seconds |-> 0]]
                       ELSE call.timezone)

\* a successful construction with the smallest balance and a given timezone
C6_Witness ==
    /\ ret.op = "Account" /\ ret.raised = NoException
    /\ call.initial_balance = PyFloat(1, 100)
    /\ call.timezone = IR
    /\ ret.account.account_number = 0
    /\ ret.account.first_name = <<" ", "I", "R", "\n">>

\* the offset of (hours, minutes) in minutes
OffsetMinutes(h, m) == 60 * h + m

\* the offset is within -12:00 .. +14:00 and the minutes within -59 .. 59
OffsetInRange(h, m) ==
    /\ m >= -59 /\ m <= 59
    /\ OffsetMinutes(h, m) >= -720 /\ OffsetMinutes(h, m) <= 840

C8_SharedInterestRate ==
    /\ [][(ret'.op = "set_interest_rate" /\ IsReal(ret'.arg))
          => /\ PyLt(ret'.arg, PyInt(0))
                  => ret'.raised = "ValueError" /\ interest_rate' = interest_rate
             /\ PyGe(ret'.arg, PyInt(0))
                  => ret'.raised = NoException /\ interest_rate' = ret'.arg]_vars
    /\ [][ret'.op # "set_interest_rate" => interest_rate' = interest_rate]_vars
    /\ [][ret'.op = "pay_interest"
          => LET i == ret'.self
                 balance == accounts[i].balance
             IN  /\ accounts' =
                      [accounts EXCEPT
                         ![i].balance =
                            PyAdd(balance,
                                  PyTrueDiv(PyMul(balance, interest_rate),
                                            PyInt(100)))]
                 /\ ret'.raised = NoException
                 /\ StartsWith(ret'.code, <<"I", "-">>)]_vars

\* the rate set to 10, then interest paid on both accounts: 100.0 -> 110.0
\* and 20 -> 22.0
C8_Witness ==
    /\ interest_rate = PyInt(10)
    /\ ret.op = "pay_interest"
    /\ accounts[1].balance = PyFloat(110, 1)
    /\ accounts[2].balance = PyFloat(22, 1)

\* C9: generation_confirmation_code called with a kind outside DEPOSIT,
\* WITHDRAW, INTEREST, REJECTED fails with ValueError, the error the
\* account's argument validation raises.
C9_UnknownKindIsValueError ==
    (ret.op = "generation_confirmation_code" /\ ret.kind \notin ValidKinds)
        => ret.raised = "ValueError"

\* C10: in every reachable state the balance of every account is >= 0.
C10_BalanceNonNegative ==
    \A i \in 1..Len(accounts) : PyGe(accounts[i].balance, PyInt(0))

====
